---------------------------- MODULE Spec2Model ----------------------------
(***************************************************************************)
(* clilint: the challenge.yml linter.  Two generations of the program are  *)
(* modelled side by side: the configuration-driven one                     *)
(* (src/unnamed/part_000, operators without suffix) and the hard-coded one *)
(* (src/main.go, operators with the suffix _main).                         *)
(*                                                                         *)
(* A Go string is a sequence of one-character strings; a literal piece of  *)
(* a format string is kept as one element.  A path is the sequence of its  *)
(* components, the empty sequence standing for ".".                        *)
(***************************************************************************)
EXTENDS Integers, Sequences, FiniteSets, TLC

VARIABLES
    file,       \* the descriptor file on disk, as yaml.Unmarshal will see it
    lintrc,     \* the two places loadLintConfig looks for lintrc.yaml
    fs,         \* os.Stat's outcome for every path a declared file can resolve to
    out,        \* what the last called check of part_000 returned
    outMain,    \* what the last called check of main.go returned
    result,     \* what lintChallengeFile of part_000 returned, and the checks it ran
    resultMain, \* what lintChallengeFile of main.go returned, and the checks it ran
    disk,       \* the directory tree: the descriptor in each directory, unreadable directories
    github,     \* the pull request: token, changed files, API failures, comments posted
    run         \* one invocation of main: arguments, position, results, exit status

vars == <<file, lintrc, fs, out, outMain, result, resultMain, disk, github, run>>

-----------------------------------------------------------------------------
(* Bounds of the model.                                                    *)

MaxTags == 2
MaxReqs == 2
MaxFiles == 2
MaxPatterns == 1
MaxFlags == 1

MaxRulePatterns == 2

SeqsUpTo(S, n) == UNION {[1..k -> S] : k \in 0..n}

-----------------------------------------------------------------------------
(* package strings, on ASCII                                               *)

UpperLetters ==
    <<"A","B","C","D","E","F","G","H","I","J","K","L","M",
      "N","O","P","Q","R","S","T","U","V","W","X","Y","Z">>

LowerLetters ==
    <<"a","b","c","d","e","f","g","h","i","j","k","l","m",
      "n","o","p","q","r","s","t","u","v","w","x","y","z">>

ToLowerChar(c) ==
    IF \E i \in 1..26 : UpperLetters[i] = c
    THEN LowerLetters[CHOOSE i \in 1..26 : UpperLetters[i] = c]
    ELSE c

ToLower(s) == [i \in 1..Len(s) |-> ToLowerChar(s[i])]

Contains(s, substr) ==
    \E i \in 0..(Len(s) - Len(substr)) : SubSeq(s, i + 1, i + Len(substr)) = substr

EqualFold(s, t) ==
    /\ Len(s) = Len(t)
    /\ \A i \in 1..Len(s) : ToLowerChar(s[i]) = ToLowerChar(t[i])

TrimSuffix(s, suffix) ==
    IF Len(s) >= Len(suffix) /\ SubSeq(s, Len(s) - Len(suffix) + 1, Len(s)) = suffix
    THEN SubSeq(s, 1, Len(s) - Len(suffix))
    ELSE s

IsSpace(c) == c \in {" ", "\t", "\n", "\r"}

RECURSIVE TrimLeft(_)
TrimLeft(s) ==
    IF s # <<>> /\ IsSpace(Head(s)) THEN TrimLeft(Tail(s)) ELSE s

RECURSIVE TrimRight(_)
TrimRight(s) ==
    IF s # <<>> /\ IsSpace(s[Len(s)]) THEN TrimRight(SubSeq(s, 1, Len(s) - 1)) ELSE s

TrimSpace(s) == TrimRight(TrimLeft(s))

RECURSIVE Join(_, _)
Join(elems, sep) ==
    IF elems = <<>> THEN <<>>
    ELSE IF Len(elems) = 1 THEN elems[1]
    ELSE elems[1] \o sep \o Join(Tail(elems), sep)

(* fmt's %d of a non-negative integer *)
Digits == <<"0","1","2","3","4","5","6","7","8","9">>

RECURSIVE FormatInt(_)
FormatInt(n) ==
    IF n < 10 THEN <<Digits[n + 1]>>
    ELSE FormatInt(n \div 10) \o <<Digits[(n % 10) + 1]>>

(* n / d rounded to the nearest integer, ties to even: what strconv does   *)
(* with the exact value of a float64 when it formats it with %.2f.         *)
RoundHalfEven(n, d) ==
    LET q == n \div d
        r == n % d
    IN  IF 2 * r > d THEN q + 1
        ELSE IF 2 * r < d THEN q
        ELSE IF q % 2 = 0 THEN q ELSE q + 1

-----------------------------------------------------------------------------
(* package path/filepath, on relative slash-separated paths                *)

RECURSIVE CleanOnto(_, _)
CleanOnto(stack, rest) ==
    IF rest = <<>> THEN stack
    ELSE LET c == Head(rest)
         IN  IF c = "." THEN CleanOnto(stack, Tail(rest))
             ELSE IF c = ".." /\ stack # <<>> /\ stack[Len(stack)] # ".."
                  THEN CleanOnto(SubSeq(stack, 1, Len(stack) - 1), Tail(rest))
             ELSE CleanOnto(Append(stack, c), Tail(rest))

Clean(path) == CleanOnto(<<>>, path)

FilepathJoin(dir, name) == Clean(dir \o name)

FilepathDir(path) == Clean(SubSeq(path, 1, Len(path) - 1))

PathString(path) == Join([i \in 1..Len(path) |-> <<path[i]>>], <<"/">>)

-----------------------------------------------------------------------------
(* Strings the program and the inputs use.                                 *)

welcome == <<"w","e","l","c","o","m","e">>
easy == <<"e","a","s","y">>
medium == <<"m","e","d","i","u","m">>
hard == <<"h","a","r","d">>
introduction == <<"i","n","t","r","o","d","u","c","t","i","o","n">>

(* What yaml.v3 decodes `null`, `~` or a missing key into for interface{}. *)
Nil == "nil"

-----------------------------------------------------------------------------
(* gopkg.in/yaml.v3 decoding into Challenge.  A flag entry is a YAML node: *)
(* a string scalar, an integer scalar or a mapping.  Decoding a scalar     *)
(* into a Go string succeeds whatever the scalar's tag and yields its      *)
(* text; decoding a mapping into a Go string is a TypeError.               *)

DecodesIntoString(node) == node.kind \in {"str", "int"}

DecodeString(node) == node.text

DecodeInterface(node) == IF node.kind \in {"null", "absent"} THEN Nil ELSE node.text

yamlUnmarshal(f) ==
    [err |-> \/ f.kind = "garbage"
             \/ \E i \in 1..Len(f.flags) : ~DecodesIntoString(f.flags[i]),
     challenge |->
        [Name |-> f.name,
         Author |-> f.author,
         Description |-> f.description,
         Flags |-> [i \in 1..Len(f.flags) |-> DecodeString(f.flags[i])],
         Tags |-> f.tags,
         Files |-> f.files,
         Requirements |-> f.requirements,
         Type |-> f.type,
         Image |-> DecodeInterface(f.image),
         Host |-> DecodeInterface(f.host),
         State |-> f.state,
         Version |-> f.version]]

-----------------------------------------------------------------------------
(* os.Stat and os.ReadFile                                                 *)

osStat(path) == fs[path]

IsNotExist(err) == err = "ENOENT"

-----------------------------------------------------------------------------
(* Diagnostics: the strings fmt.Sprintf builds.                            *)

maxFileSize == 1024 * 1024

MsgNotExist(f) == <<"File specified in 'files' does not exist: ">> \o PathString(f)

MsgAccess(f, err) == <<"Error accessing file: ">> \o PathString(f) \o <<" (", err, ")">>

(* %.2f of float64(size) / (1024 * 1024): the division by a power of two   *)
(* is exact, and the formatting rounds the exact value to two decimals.    *)
FormatSizeMB(size) ==
    LET h == RoundHalfEven(size * 100, 1024 * 1024)
    IN  FormatInt(h \div 100) \o <<".", Digits[((h \div 10) % 10) + 1], Digits[(h % 10) + 1]>>

MsgTooLarge(f, size) ==
    <<"File '">> \o PathString(f) \o <<"' is too large: ">> \o FormatSizeMB(size)
        \o <<" MB (maximum allowed: 1.00 MB)">>

MsgRequirements(type) ==
    <<"Requirements validation failed for pattern type '", type, "'">>

MsgTags(values) ==
    <<"Tags should contain exactly one of: ">> \o Join(values, <<",", " ">>)

MsgImage == <<"Field 'image' should be null">>

MsgState == <<"Field 'state' should be 'visible'">>

MsgVersion == <<"Field 'version' should be '0.1'">>

MsgInvalidYAML == <<"Invalid YAML format: ", "yaml-error">>

MsgReadFile == <<"Failed to read file: ", "read-error">>

MsgLoadConfig(err) == <<"Failed to load lint config: ", err>>

MsgRequirements_main ==
    <<"Challenges without 'welcome' in name must have 'welcome' in requirements">>

MsgTags_main ==
    <<"Tags should contain exactly one of: ">>
        \o introduction \o <<",", " ">> \o easy \o <<",", " ">> \o medium
        \o <<",", " ">> \o hard

-----------------------------------------------------------------------------
(* The checks of src/unnamed/part_000 (configuration-driven)               *)

checkFilesOne_anyError(baseDir, f) ==
    LET fullPath == FilepathJoin(baseDir, f)
        st == osStat(fullPath)
    IN  IF st.err # "nil" THEN <<MsgNotExist(f)>>
        ELSE IF st.size > maxFileSize THEN <<MsgTooLarge(f, st.size)>>
        ELSE <<>>

checkFilesOne_atLeast(baseDir, f) ==
    LET fullPath == FilepathJoin(baseDir, f)
        st == osStat(fullPath)
    IN  IF IsNotExist(st.err) THEN <<MsgNotExist(f)>>
        ELSE IF st.err # "nil" THEN <<MsgAccess(f, st.err)>>
        ELSE IF st.size >= maxFileSize THEN <<MsgTooLarge(f, st.size)>>
        ELSE <<>>

checkFilesOne_noElse(baseDir, f) ==
    LET fullPath == FilepathJoin(baseDir, f)
        st == osStat(fullPath)
    IN  (IF IsNotExist(st.err) THEN <<MsgNotExist(f)>> ELSE <<>>)
        \o (IF st.err # "nil" THEN <<MsgAccess(f, st.err)>>
            ELSE IF st.size > maxFileSize THEN <<MsgTooLarge(f, st.size)>>
            ELSE <<>>)

checkFilesOne(baseDir, f) ==
    LET fullPath == FilepathJoin(baseDir, f)
        st == osStat(fullPath)
    IN  IF IsNotExist(st.err) THEN <<MsgNotExist(f)>>
        ELSE IF st.err # "nil" THEN <<MsgAccess(f, st.err)>>
        ELSE IF st.size > maxFileSize THEN <<MsgTooLarge(f, st.size)>>
        ELSE <<>>

RECURSIVE checkFilesLoop(_, _)
checkFilesLoop(baseDir, files) ==
    IF files = <<>> THEN <<>>
    ELSE checkFilesOne(baseDir, Head(files)) \o checkFilesLoop(baseDir, Tail(files))

checkFiles(challengePath, files) == checkFilesLoop(FilepathDir(challengePath), files)

nameExempt_caseSensitive(name) == Contains(name, welcome)

nameExempt(name) == Contains(ToLower(name), welcome)

checkPatternMatch_defaultTrue(challenge, pattern) ==
    CASE pattern.Type = "regex" ->
            \E i \in 1..Len(pattern.Values) :
                Contains(ToLower(challenge.Author),
                         TrimSpace(TrimSuffix(pattern.Values[i], <<"*">>)))
      [] pattern.Type = "static" ->
            \E r \in 1..Len(challenge.Requirements) :
                \E i \in 1..Len(pattern.Values) :
                    EqualFold(challenge.Requirements[r], pattern.Values[i])
      [] OTHER -> TRUE

checkPatternMatch_exactCase(challenge, pattern) ==
    CASE pattern.Type = "regex" ->
            \E i \in 1..Len(pattern.Values) :
                Contains(ToLower(challenge.Author),
                         TrimSpace(TrimSuffix(pattern.Values[i], <<"*">>)))
      [] pattern.Type = "static" ->
            \E r \in 1..Len(challenge.Requirements) :
                \E i \in 1..Len(pattern.Values) :
                    challenge.Requirements[r] = pattern.Values[i]
      [] OTHER -> FALSE

checkPatternMatch(challenge, pattern) ==
    CASE pattern.Type = "regex" ->
            \E i \in 1..Len(pattern.Values) :
                Contains(ToLower(challenge.Author),
                         TrimSpace(TrimSuffix(pattern.Values[i], <<"*">>)))
      [] pattern.Type = "static" ->
            \E r \in 1..Len(challenge.Requirements) :
                \E i \in 1..Len(pattern.Values) :
                    EqualFold(challenge.Requirements[r], pattern.Values[i])
      [] OTHER -> FALSE

RECURSIVE checkRequirementsLoop_reportsMatches(_, _)
checkRequirementsLoop_reportsMatches(challenge, patterns) ==
    IF patterns = <<>> THEN <<>>
    ELSE (IF checkPatternMatch(challenge, Head(patterns))
          THEN <<MsgRequirements(Head(patterns).Type)>>
          ELSE <<>>)
         \o checkRequirementsLoop_reportsMatches(challenge, Tail(patterns))

RECURSIVE checkRequirementsLoop(_, _)
checkRequirementsLoop(challenge, patterns) ==
    IF patterns = <<>> THEN <<>>
    ELSE (IF ~checkPatternMatch(challenge, Head(patterns))
          THEN <<MsgRequirements(Head(patterns).Type)>>
          ELSE <<>>)
         \o checkRequirementsLoop(challenge, Tail(patterns))

ruleApplies_noneToo(condition) == condition \in {"and", "none"}

ruleApplies_unlessNone(condition) == condition # "none"

ruleApplies(condition) == condition = "and"

checkRequirements(challenge, reqRule) ==
    IF nameExempt(challenge.Name) THEN <<>>
    ELSE IF ruleApplies(reqRule.Condition)
         THEN checkRequirementsLoop(challenge, reqRule.Patterns)
         ELSE <<>>

checkImage(image) == IF image # Nil THEN <<MsgImage>> ELSE <<>>

checkState(state) == IF state # "visible" THEN <<MsgState>> ELSE <<>>

checkVersion_oneDotZero(version) == IF version # "1.0" THEN <<MsgVersion>> ELSE <<>>

checkVersion(version) == IF version # "0.1" THEN <<MsgVersion>> ELSE <<>>

tagEquals(tag, value) == tag = value

RECURSIVE foundCount(_, _)
foundCount(tags, values) ==
    IF tags = <<>> THEN 0
    ELSE (IF \E i \in 1..Len(values) : tagEquals(Head(tags), values[i]) THEN 1 ELSE 0)
         + foundCount(Tail(tags), values)

tagCountWrong_onlyZero(n) == n = 0

tagCountWrong(n) == n # 1

RECURSIVE checkTagsLoop_anyType(_, _)
checkTagsLoop_anyType(tags, patterns) ==
    IF patterns = <<>> THEN <<>>
    ELSE (IF tagCountWrong(foundCount(tags, Head(patterns).Values))
          THEN <<MsgTags(Head(patterns).Values)>>
          ELSE <<>>)
         \o checkTagsLoop_anyType(tags, Tail(patterns))

RECURSIVE checkTagsLoop(_, _)
checkTagsLoop(tags, patterns) ==
    IF patterns = <<>> THEN <<>>
    ELSE (IF Head(patterns).Type = "static"
             /\ tagCountWrong(foundCount(tags, Head(patterns).Values))
          THEN <<MsgTags(Head(patterns).Values)>>
          ELSE <<>>)
         \o checkTagsLoop(tags, Tail(patterns))

checkTags(tags, tagRule) ==
    IF ruleApplies(tagRule.Condition) THEN checkTagsLoop(tags, tagRule.Patterns) ELSE <<>>

-----------------------------------------------------------------------------
(* The checks of src/main.go (hard-coded)                                  *)

checkFilesOne_main(baseDir, f) ==
    IF IsNotExist(osStat(FilepathJoin(baseDir, f)).err) THEN <<MsgNotExist(f)>> ELSE <<>>

RECURSIVE checkFilesLoop_main(_, _)
checkFilesLoop_main(baseDir, files) ==
    IF files = <<>> THEN <<>>
    ELSE checkFilesOne_main(baseDir, Head(files))
         \o checkFilesLoop_main(baseDir, Tail(files))

checkFiles_main(challengePath, files) ==
    checkFilesLoop_main(FilepathDir(challengePath), files)

checkRequirements_main_exactCase(name, requirements) ==
    IF ~Contains(ToLower(name), welcome)
    THEN LET hasWelcome ==
                \E r \in 1..Len(requirements) : requirements[r] = welcome
         IN  IF ~hasWelcome THEN <<MsgRequirements_main>> ELSE <<>>
    ELSE <<>>

checkRequirements_main(name, requirements) ==
    IF ~Contains(ToLower(name), welcome)
    THEN LET hasWelcome ==
                \E r \in 1..Len(requirements) : ToLower(requirements[r]) = welcome
         IN  IF ~hasWelcome THEN <<MsgRequirements_main>> ELSE <<>>
    ELSE <<>>

validTags == <<introduction, easy, medium, hard>>

RECURSIVE foundValidTags(_)
foundValidTags(tags) ==
    IF tags = <<>> THEN <<>>
    ELSE (IF \E i \in 1..Len(validTags) : Head(tags) = validTags[i]
          THEN <<Head(tags)>> ELSE <<>>)
         \o foundValidTags(Tail(tags))

checkTags_main(tags) ==
    IF Len(foundValidTags(tags)) # 1 THEN <<MsgTags_main>> ELSE <<>>

-----------------------------------------------------------------------------
(* Policy loading and the per-file driver                                  *)

getDefaultLintConfig ==
    [Tags |-> [Condition |-> "and",
               Patterns |-> <<[Type |-> "static", Values |-> <<easy, medium, hard>>]>>],
     Requirements |-> [Condition |-> "and",
                       Patterns |-> <<[Type |-> "static", Values |-> <<welcome>>]>>]]

loadLintConfig_cwdOnly ==
    IF lintrc.cwd.kind = "absent"
    THEN [err |-> "nil", config |-> getDefaultLintConfig]
    ELSE IF lintrc.cwd.kind = "unreadable"
    THEN [err |-> "failed to read lintrc.yaml", config |-> getDefaultLintConfig]
    ELSE IF lintrc.cwd.kind = "garbage"
    THEN [err |-> "failed to parse lintrc.yaml", config |-> getDefaultLintConfig]
    ELSE [err |-> "nil", config |-> lintrc.cwd.config]

(* lintrc.yaml in the working directory, else next to the executable, else *)
(* the default.  A file that is there but cannot be read or parsed is an   *)
(* error, not a fallback.                                                  *)
loadLintConfig ==
    LET cwdMissing == lintrc.cwd.kind = "absent"
        exeMissing == lintrc.exe.kind = "absent"
        chosen == IF cwdMissing THEN lintrc.exe ELSE lintrc.cwd
    IN  IF cwdMissing /\ exeMissing
        THEN [err |-> "nil", config |-> getDefaultLintConfig]
        ELSE IF chosen.kind = "unreadable"
        THEN [err |-> "failed to read lintrc.yaml", config |-> getDefaultLintConfig]
        ELSE IF chosen.kind = "garbage"
        THEN [err |-> "failed to parse lintrc.yaml", config |-> getDefaultLintConfig]
        ELSE [err |-> "nil", config |-> chosen.config]

LintResult(path, errors, name, description, calls) ==
    [done |-> TRUE, File |-> path, Errors |-> errors, Name |-> name,
     Description |-> description, calls |-> calls]

lintChallengeFile_noReturn(filePath) ==
    LET loaded == loadLintConfig
        parsed == yamlUnmarshal(file)
        challenge == parsed.challenge
        config == loaded.config
    IN  IF loaded.err # "nil"
        THEN LintResult(filePath, <<MsgLoadConfig(loaded.err)>>, <<>>, "", <<>>)
        ELSE IF file.kind = "unreadable"
        THEN LintResult(filePath, <<MsgReadFile>>, <<>>, "", <<>>)
        ELSE LintResult(filePath,
                (IF parsed.err THEN <<MsgInvalidYAML>> ELSE <<>>)
                    \o checkFiles(filePath, challenge.Files)
                    \o checkRequirements(challenge, config.Requirements)
                    \o checkImage(challenge.Image)
                    \o checkState(challenge.State)
                    \o checkVersion(challenge.Version)
                    \o checkTags(challenge.Tags, config.Tags),
                challenge.Name, challenge.Description,
                <<"checkFiles", "checkRequirements", "checkImage", "checkState",
                  "checkVersion", "checkTags">>)

lintChallengeFile_fallsBack(filePath) ==
    LET parsed == yamlUnmarshal(file)
        challenge == parsed.challenge
        config == loadLintConfig.config
    IN  IF file.kind = "unreadable"
        THEN LintResult(filePath, <<MsgReadFile>>, <<>>, "", <<>>)
        ELSE IF parsed.err
        THEN LintResult(filePath, <<MsgInvalidYAML>>, <<>>, "", <<>>)
        ELSE LintResult(filePath,
                checkFiles(filePath, challenge.Files)
                    \o checkRequirements(challenge, config.Requirements)
                    \o checkImage(challenge.Image)
                    \o checkState(challenge.State)
                    \o checkVersion(challenge.Version)
                    \o checkTags(challenge.Tags, config.Tags),
                challenge.Name, challenge.Description,
                <<"checkFiles", "checkRequirements", "checkImage", "checkState",
                  "checkVersion", "checkTags">>)

lintChallengeFile(filePath) ==
    LET loaded == loadLintConfig
        parsed == yamlUnmarshal(file)
        challenge == parsed.challenge
        config == loaded.config
    IN  IF loaded.err # "nil"
        THEN LintResult(filePath, <<MsgLoadConfig(loaded.err)>>, <<>>, "", <<>>)
        ELSE IF file.kind = "unreadable"
        THEN LintResult(filePath, <<MsgReadFile>>, <<>>, "", <<>>)
        ELSE IF parsed.err
        THEN LintResult(filePath, <<MsgInvalidYAML>>, <<>>, "", <<>>)
        ELSE LintResult(filePath,
                checkFiles(filePath, challenge.Files)
                    \o checkRequirements(challenge, config.Requirements)
                    \o checkImage(challenge.Image)
                    \o checkState(challenge.State)
                    \o checkVersion(challenge.Version)
                    \o checkTags(challenge.Tags, config.Tags),
                challenge.Name, challenge.Description,
                <<"checkFiles", "checkRequirements", "checkImage", "checkState",
                  "checkVersion", "checkTags">>)

lintChallengeFile_main(filePath) ==
    LET parsed == yamlUnmarshal(file)
        challenge == parsed.challenge
    IN  IF file.kind = "unreadable"
        THEN LintResult(filePath, <<MsgReadFile>>, <<>>, "", <<>>)
        ELSE IF parsed.err
        THEN LintResult(filePath, <<MsgInvalidYAML>>, <<>>, "", <<>>)
        ELSE LintResult(filePath,
                checkFiles_main(filePath, challenge.Files)
                    \o checkRequirements_main(challenge.Name, challenge.Requirements)
                    \o checkImage(challenge.Image)
                    \o checkState(challenge.State)
                    \o checkVersion(challenge.Version)
                    \o checkTags_main(challenge.Tags),
                challenge.Name, challenge.Description,
                <<"checkFiles", "checkRequirements", "checkImage", "checkState",
                  "checkVersion", "checkTags">>)

-----------------------------------------------------------------------------
(* Inputs                                                                  *)

ChallengePath == <<"chal", "challenge.yml">>

Easy == <<"E","a","s","y">>
Welcome == <<"W","e","l","c","o","m","e">>
other == <<"o","t","h","e","r">>

StrNode(text) == [kind |-> "str", text |-> text]

(* A descriptor that passes every check of both generations but the tags   *)
(* and the requirements check, which the fields below override.            *)
ValidDoc ==
    [kind |-> "doc",
     name |-> <<"x">>,
     author |-> <<"t","e","s","t">>,
     description |-> "test description",
     flags |-> <<StrNode(<<"f","l","a","g">>)>>,
     tags |-> <<easy>>,
     files |-> <<>>,
     requirements |-> <<welcome>>,
     type |-> "dynamic",
     image |-> [kind |-> "null", text |-> <<>>],
     host |-> [kind |-> "null", text |-> <<>>],
     state |-> "visible",
     version |-> "0.1"]

LintrcAbsent == [kind |-> "absent", config |-> getDefaultLintConfig]

LintrcDoc(config) == [kind |-> "doc", config |-> config]

NoLintrc == [cwd |-> LintrcAbsent, exe |-> LintrcAbsent]

(* The paths a declared file of FileNames resolves to from ChallengePath.  *)
FileNames == {<<"a">>, <<".", "a">>, <<"..", "a">>}

FsPaths == {<<"chal", "a">>, <<"a">>}

StatOK(size) == [err |-> "nil", size |-> size]

StatErr(err) == [err |-> err, size |-> 0]

NothingOnDisk == [p \in FsPaths |-> StatErr("ENOENT")]

(* Sizes around the limit, and two whose size in MiB has a 5 in the third  *)
(* decimal place (1.125 and 1.375).                                        *)
Sizes == {0, maxFileSize, maxFileSize + 1, 9 * 131072, 11 * 131072}

StatOutcomes == {StatErr("ENOENT"), StatErr("EACCES")} \cup {StatOK(n) : n \in Sizes}

NoOut == [op |-> "none", errors |-> <<>>]

NoResult ==
    [done |-> FALSE, File |-> <<>>, Errors |-> <<>>, Name |-> <<>>,
     Description |-> "", calls |-> <<>>]

(* The checks below are applied outside any invocation of main.            *)
NoConfigYaml == [present |-> FALSE, genre |-> {}]

NoDisk == [tree |-> <<>>, noAccess |-> {}, config |-> NoConfigYaml]

NoEnviron ==
    [GITHUB_TOKEN |-> <<>>, INPUT_REPOSITORY |-> <<>>, GITHUB_REPOSITORY |-> <<>>,
     INPUT_PR_NUMBER |-> <<>>, PR_NUMBER |-> <<>>]

NoGithub == [environ |-> NoEnviron, files |-> <<>>, listFails |-> FALSE,
             postFails |-> FALSE, comments |-> <<>>]

NoRun == [pc |-> "none"]

Conditions == {"and", "or", "none", "", "AND"}

ValueLists == {<<easy, medium, hard>>, <<easy>>, <<>>, <<easy, easy>>, <<medium, easy>>}

TagPatterns ==
    {[Type |-> "static", Values |-> v] : v \in ValueLists}
        \cup {[Type |-> t, Values |-> <<easy>>] : t \in {"regex", "glob"}}

TagAlphabet == {easy, medium, Easy, introduction}

TagRules == [Condition : Conditions, Patterns : SeqsUpTo(TagPatterns, MaxPatterns)]

Names ==
    {<<"x">>, welcome, <<"a","W","e","L","c","O","m","E","1">>,
     <<"w","e","l","c","o","m">>}

ReqAlphabet == {welcome, Welcome, other}

ReqPatterns ==
    {[Type |-> "static", Values |-> v] : v \in {<<welcome>>, <<other, Welcome>>, <<>>}}
        \cup {[Type |-> "regex", Values |-> v] : v \in {<<<<"t","e","*">>>>, <<<<"b","o","b">>>>}}
        \cup {[Type |-> "glob", Values |-> <<welcome>>]}

ReqRules == [Condition : Conditions, Patterns : SeqsUpTo(ReqPatterns, MaxPatterns)]

-----------------------------------------------------------------------------
(* The tags and the requirements check of both generations, applied to     *)
(* every tag list and tags rule, and to every name, requirements list and  *)
(* requirements rule.                                                      *)

TagsInput == file.tags

TagRuleInput == lintrc.cwd.config.Tags

ReqRuleInput == lintrc.cwd.config.Requirements

(* Every tag list under every tags rule; the descriptor is named "x" and   *)
(* requires nothing, under the default requirements rule.                  *)
InitTags ==
    /\ \E t \in SeqsUpTo(TagAlphabet, MaxTags) :
          file = [ValidDoc EXCEPT !.tags = t, !.requirements = <<>>]
    /\ \E r \in TagRules :
          lintrc = [cwd |-> LintrcDoc([getDefaultLintConfig EXCEPT !.Tags = r]),
                    exe |-> LintrcAbsent]

(* Every name and requirements list under every requirements rule; the     *)
(* descriptor is tagged "Easy", under the default tags rule.               *)
InitReqs ==
    /\ \E n \in Names, q \in SeqsUpTo(ReqAlphabet, MaxReqs) :
          file = [ValidDoc EXCEPT !.name = n, !.requirements = q, !.tags = <<Easy>>]
    /\ \E r \in ReqRules :
          lintrc = [cwd |-> LintrcDoc([getDefaultLintConfig EXCEPT !.Requirements = r]),
                    exe |-> LintrcAbsent]

InitRules ==
    /\ InitTags \/ InitReqs
    /\ fs = NothingOnDisk
    /\ out = NoOut
    /\ outMain = NoOut
    /\ result = NoResult
    /\ resultMain = NoResult
    /\ disk = NoDisk
    /\ github = NoGithub
    /\ run = NoRun

CallCheckTags ==
    /\ out' = [op |-> "checkTags", errors |-> checkTags(TagsInput, TagRuleInput)]
    /\ UNCHANGED <<disk, github, run, file, lintrc, fs, outMain, result, resultMain>>

CallCheckTags_main ==
    /\ outMain' = [op |-> "checkTags", errors |-> checkTags_main(TagsInput)]
    /\ UNCHANGED <<disk, github, run, file, lintrc, fs, out, result, resultMain>>

CallCheckRequirements ==
    /\ out' = [op |-> "checkRequirements",
               errors |-> checkRequirements(yamlUnmarshal(file).challenge, ReqRuleInput)]
    /\ UNCHANGED <<disk, github, run, file, lintrc, fs, outMain, result, resultMain>>

CallCheckRequirements_main ==
    /\ outMain' = [op |-> "checkRequirements",
                   errors |-> checkRequirements_main(file.name, file.requirements)]
    /\ UNCHANGED <<disk, github, run, file, lintrc, fs, out, result, resultMain>>

NextRules ==
    \/ CallCheckTags
    \/ CallCheckTags_main
    \/ CallCheckRequirements
    \/ CallCheckRequirements_main

SpecRules == InitRules /\ [][NextRules]_vars

-----------------------------------------------------------------------------
(* What the claims speak of, stated without the program's loops.           *)

Range(seq) == {seq[i] : i \in 1..Len(seq)}

MatchCount(tags, values) ==
    Cardinality({i \in 1..Len(tags) : \E j \in 1..Len(values) : tags[i] = values[j]})

RECURSIVE Listed(_)
Listed(values) ==
    IF Len(values) = 0 THEN <<>>
    ELSE IF Len(values) = 1 THEN values[1]
    ELSE Listed(SubSeq(values, 1, Len(values) - 1)) \o <<",", " ">> \o values[Len(values)]

ExpectedTagsError(tags, values) ==
    IF MatchCount(tags, values) = 1 THEN <<>>
    ELSE << <<"Tags should contain exactly one of: ">> \o Listed(values) >>

RECURSIVE ExpectedTagsErrors(_, _)
ExpectedTagsErrors(tags, patterns) ==
    IF Len(patterns) = 0 THEN <<>>
    ELSE ExpectedTagsErrors(tags, SubSeq(patterns, 1, Len(patterns) - 1))
         \o ExpectedTagsError(tags, patterns[Len(patterns)].Values)

AllStatic(patterns) == \A i \in 1..Len(patterns) : patterns[i].Type = "static"

WELCOME == <<"W","E","L","C","O","M","E">>

NameHasWelcome(name) ==
    \E i \in 1..(Len(name) - 6) :
        \A k \in 1..7 : name[i + k - 1] \in {welcome[k], WELCOME[k]}

RequiresIgnoringCase(reqs, values) ==
    {ToLower(r) : r \in Range(reqs)} \cap {ToLower(v) : v \in Range(values)} # {}

RECURSIVE ExpectedStaticReqErrors(_, _)
ExpectedStaticReqErrors(reqs, patterns) ==
    IF Len(patterns) = 0 THEN <<>>
    ELSE ExpectedStaticReqErrors(reqs, SubSeq(patterns, 1, Len(patterns) - 1))
         \o (IF RequiresIgnoringCase(reqs, patterns[Len(patterns)].Values) THEN <<>>
             ELSE << <<"Requirements validation failed for pattern type '", "static", "'">> >>)

-----------------------------------------------------------------------------
(* C1: under condition "and", the tags check of part_000 reports each      *)
(* static pattern exactly when the number of tag entries equal to one of   *)
(* its values, counted with multiplicity, is not 1, with one diagnostic    *)
(* listing the values in declared order; the tags check of main.go does    *)
(* the same for introduction, easy, medium, hard.                          *)
C1_TagsExactlyOne ==
    /\ (out.op = "checkTags" /\ TagRuleInput.Condition = "and"
            /\ AllStatic(TagRuleInput.Patterns))
        => out.errors = ExpectedTagsErrors(TagsInput, TagRuleInput.Patterns)
    /\ outMain.op = "checkTags"
        => outMain.errors
             = ExpectedTagsError(TagsInput, <<introduction, easy, medium, hard>>)

C1_Witness ==
    /\ out.op = "checkTags"
    /\ outMain.op = "checkTags"
    /\ TagRuleInput.Condition = "and"
    /\ Len(TagRuleInput.Patterns) = 1
    /\ TagRuleInput.Patterns[1].Type = "static"
    /\ MatchCount(TagsInput, TagRuleInput.Patterns[1].Values) >= 2
    /\ Len(TagRuleInput.Patterns[1].Values) >= 2
    /\ Len(out.errors) = 1
    /\ Len(outMain.errors) = 1

(* C2: a descriptor whose name contains "welcome" in any letter case gets  *)
(* no diagnostic from the requirements check, whatever the requirements    *)
(* and the rule.                                                           *)
C2_WelcomeNameExempt ==
    /\ (out.op = "checkRequirements" /\ NameHasWelcome(file.name)) => out.errors = <<>>
    /\ (outMain.op = "checkRequirements" /\ NameHasWelcome(file.name))
        => outMain.errors = <<>>

C2_Witness ==
    /\ out.op = "checkRequirements"
    /\ outMain.op = "checkRequirements"
    /\ NameHasWelcome(file.name)
    /\ ~Contains(file.name, welcome)
    /\ file.requirements = <<>>
    /\ ReqRuleInput.Condition = "and"
    /\ ReqRuleInput.Patterns = <<[Type |-> "static", Values |-> <<welcome>>]>>
    /\ out.errors = <<>>

(* C9: a rule whose condition is "none" yields no diagnostic from its own  *)
(* check, and leaves the other rule's check as it is under "and".          *)
C9_NoneDisables ==
    /\ (out.op = "checkTags" /\ TagRuleInput.Condition = "none") => out.errors = <<>>
    /\ (out.op = "checkRequirements" /\ ReqRuleInput.Condition = "none")
        => out.errors = <<>>
    /\ (out.op = "checkRequirements" /\ TagRuleInput.Condition = "none"
            /\ ReqRuleInput.Condition = "and" /\ AllStatic(ReqRuleInput.Patterns)
            /\ ~NameHasWelcome(file.name))
        => out.errors = ExpectedStaticReqErrors(file.requirements, ReqRuleInput.Patterns)
    /\ (out.op = "checkTags" /\ ReqRuleInput.Condition = "none"
            /\ TagRuleInput.Condition = "and" /\ AllStatic(TagRuleInput.Patterns))
        => out.errors = ExpectedTagsErrors(TagsInput, TagRuleInput.Patterns)

C9_Witness ==
    /\ out.op = "checkTags"
    /\ TagRuleInput.Condition = "none"
    /\ Len(TagRuleInput.Patterns) = 1
    /\ TagRuleInput.Patterns[1].Type = "static"
    /\ TagRuleInput.Patterns[1].Values # <<>>
    /\ MatchCount(TagsInput, TagRuleInput.Patterns[1].Values) # 1
    /\ out.errors = <<>>

(* C10: a rule whose condition is neither "and" nor "none" ("or", the      *)
(* empty string of an absent rule, any other string) yields no diagnostic  *)
(* from the tags check or from the requirements check.                     *)
C10_OtherConditionsNoOp ==
    /\ (out.op = "checkTags" /\ TagRuleInput.Condition \notin {"and", "none"})
        => out.errors = <<>>
    /\ (out.op = "checkRequirements" /\ ReqRuleInput.Condition \notin {"and", "none"})
        => out.errors = <<>>

C10_Witness ==
    /\ out.op = "checkRequirements"
    /\ ReqRuleInput.Condition = "or"
    /\ ~NameHasWelcome(file.name)
    /\ file.requirements = <<>>
    /\ ReqRuleInput.Patterns = <<[Type |-> "static", Values |-> <<welcome>>]>>
    /\ out.errors = <<>>

-----------------------------------------------------------------------------
(* checkFiles of both generations applied to every list of declared files  *)
(* under every filesystem state.                                           *)

InitFiles ==
    /\ \E fl \in SeqsUpTo(FileNames, MaxFiles) : file = [ValidDoc EXCEPT !.files = fl]
    /\ lintrc = NoLintrc
    /\ fs \in [FsPaths -> StatOutcomes]
    /\ out = NoOut
    /\ outMain = NoOut
    /\ result = NoResult
    /\ resultMain = NoResult
    /\ disk = NoDisk
    /\ github = NoGithub
    /\ run = NoRun

CallCheckFiles ==
    /\ out' = [op |-> "checkFiles", errors |-> checkFiles(ChallengePath, file.files)]
    /\ UNCHANGED <<disk, github, run, file, lintrc, fs, outMain, result, resultMain>>

CallCheckFiles_main ==
    /\ outMain' = [op |-> "checkFiles",
                   errors |-> checkFiles_main(ChallengePath, file.files)]
    /\ UNCHANGED <<disk, github, run, file, lintrc, fs, out, result, resultMain>>

NextFiles == CallCheckFiles \/ CallCheckFiles_main

SpecFiles == InitFiles /\ [][NextFiles]_vars

(* Where each declared file of FileNames lies, seen from the directory of  *)
(* chal/challenge.yml, and how it is spelled.                              *)
ResolvedPath(f) ==
    CASE f = <<"a">> -> <<"chal", "a">>
      [] f = <<".", "a">> -> <<"chal", "a">>
      [] f = <<"..", "a">> -> <<"a">>

Spelled(f) ==
    CASE f = <<"a">> -> <<"a">>
      [] f = <<".", "a">> -> <<".", "/", "a">>
      [] f = <<"..", "a">> -> <<"..", "/", "a">>

IsMissing(f) == fs[ResolvedPath(f)].err = "ENOENT"

IsNotExistMsg(e) == e[1] = "File specified in 'files' does not exist: "

IsTooLargeMsg(e) == e[1] = "File '"

ExpectedNotExist(files) ==
    LET missing == SelectSeq(files, IsMissing)
    IN  [i \in 1..Len(missing) |->
            <<"File specified in 'files' does not exist: ">> \o Spelled(missing[i])]

(* The size in hundredths of a MiB, to the nearest, ties to even.          *)
Hundredths(size) ==
    CHOOSE h \in 0..1000 :
        LET d == size * 100 - h * 1048576
            a == IF d < 0 THEN -d ELSE d
        IN  2 * a < 1048576 \/ (2 * a = 1048576 /\ h % 2 = 0)

IsOverLimit(f) ==
    /\ fs[ResolvedPath(f)].err = "nil"
    /\ fs[ResolvedPath(f)].size >= 1048577

ExpectedTooLarge(files) ==
    LET big == SelectSeq(files, IsOverLimit)
    IN  [i \in 1..Len(big) |->
            LET h == Hundredths(fs[ResolvedPath(big[i])].size)
            IN  <<"File '">> \o Spelled(big[i]) \o <<"' is too large: ">>
                    \o <<Digits[(h \div 100) + 1], ".", Digits[((h \div 10) % 10) + 1],
                         Digits[(h % 10) + 1]>>
                    \o <<" MB (maximum allowed: 1.00 MB)">>]

(* C3: checkFiles of either generation emits one "does not exist"          *)
(* diagnostic for each declared entry whose path, taken from the           *)
(* descriptor's directory, does not exist, none for any other entry, in    *)
(* the order of declaration.                                               *)
C3_MissingFilesInOrder ==
    /\ out.op = "checkFiles"
        => SelectSeq(out.errors, IsNotExistMsg) = ExpectedNotExist(file.files)
    /\ outMain.op = "checkFiles" => outMain.errors = ExpectedNotExist(file.files)

C3_Witness ==
    /\ out.op = "checkFiles"
    /\ outMain.op = "checkFiles"
    /\ file.files = << <<"..", "a">>, <<"a">> >>
    /\ \A p \in FsPaths : fs[p].err = "ENOENT"
    /\ Len(out.errors) = 2
    /\ Len(outMain.errors) = 2

(* C4: checkFiles of part_000 emits no "is too large" diagnostic for a     *)
(* file of 1,048,576 bytes or fewer and exactly one for a file of          *)
(* 1,048,577 bytes or more, giving the size in MiB to two decimals.        *)
C4_SizeBoundary ==
    out.op = "checkFiles"
        => SelectSeq(out.errors, IsTooLargeMsg) = ExpectedTooLarge(file.files)

C4_Witness ==
    /\ out.op = "checkFiles"
    /\ file.files = << <<"a">>, <<"..", "a">> >>
    /\ fs[<<"chal", "a">>] = [err |-> "nil", size |-> 1048576]
    /\ fs[<<"a">>] = [err |-> "nil", size |-> 1048577]
    /\ out.errors = << <<"File '", "..", "/", "a", "' is too large: ", "1", ".", "0", "0",
                         " MB (maximum allowed: 1.00 MB)">> >>

-----------------------------------------------------------------------------
(* lintChallengeFile of both generations, on descriptors whose fields vary *)
(* and on descriptors whose YAML shape varies.                             *)

NullNode == [kind |-> "null", text |-> <<>>]

AbsentNode == [kind |-> "absent", text |-> <<>>]

ValueNode == [kind |-> "str", text |-> <<"n","g","i","n","x">>]

IntNode == [kind |-> "int", text |-> <<"1","2","3">>]

MapNode == [kind |-> "map", text |-> <<>>]

FlagNodes == {StrNode(<<"f","l","a","g">>), IntNode, MapNode}

TagsNoneConfig ==
    [getDefaultLintConfig EXCEPT !.Tags.Condition = "none"]

ReqsNoneConfig ==
    [getDefaultLintConfig EXCEPT !.Requirements.Condition = "none"]

Lintrcs ==
    {NoLintrc,
     [cwd |-> LintrcDoc(TagsNoneConfig), exe |-> LintrcAbsent],
     [cwd |-> LintrcAbsent, exe |-> LintrcDoc(ReqsNoneConfig)],
     [cwd |-> [kind |-> "garbage", config |-> getDefaultLintConfig], exe |-> LintrcAbsent]}

(* The one file a descriptor of these runs declares is chal/a.             *)
LintFs ==
    {[NothingOnDisk EXCEPT ![<<"chal", "a">>] = st] :
        st \in {StatErr("ENOENT"), StatErr("EACCES"), StatOK(maxFileSize),
                StatOK(maxFileSize + 1)}}

InitLintFields ==
    /\ \E n \in {<<"x">>, <<"a","W","e","L","c","O","m","E","1">>},
          t \in SeqsUpTo({easy, introduction}, MaxTags),
          q \in SeqsUpTo({Welcome, other}, MaxReqs),
          fl \in SeqsUpTo({<<"a">>}, MaxFiles),
          im \in {NullNode, ValueNode},
          st \in {"visible", "hidden"},
          ve \in {"0.1", "1.0"} :
          file = [ValidDoc EXCEPT !.name = n, !.tags = t, !.requirements = q,
                                  !.files = fl, !.image = im, !.state = st,
                                  !.version = ve]
    /\ fs \in LintFs
    /\ lintrc \in {NoLintrc, [cwd |-> LintrcDoc(TagsNoneConfig), exe |-> LintrcAbsent]}

InitLintShape ==
    /\ \E k \in {"doc", "garbage", "unreadable"},
          fg \in SeqsUpTo(FlagNodes, MaxFlags),
          t \in {<<easy>>, <<>>},
          ty \in {"dynamic", "standard"},
          im \in {NullNode, AbsentNode},
          ho \in {NullNode, ValueNode} :
          file = [ValidDoc EXCEPT !.kind = k, !.flags = fg, !.tags = t, !.type = ty,
                                  !.image = im, !.host = ho]
    /\ fs = NothingOnDisk
    /\ lintrc \in Lintrcs

InitLint ==
    /\ InitLintFields \/ InitLintShape
    /\ out = NoOut
    /\ outMain = NoOut
    /\ result = NoResult
    /\ resultMain = NoResult
    /\ disk = NoDisk
    /\ github = NoGithub
    /\ run = NoRun

LintChallengeFile ==
    /\ result' = lintChallengeFile(ChallengePath)
    /\ UNCHANGED <<disk, github, run, file, lintrc, fs, out, outMain, resultMain>>

LintChallengeFile_main ==
    /\ resultMain' = lintChallengeFile_main(ChallengePath)
    /\ UNCHANGED <<disk, github, run, file, lintrc, fs, out, outMain, result>>

NextLint == LintChallengeFile \/ LintChallengeFile_main

SpecLint == InitLint /\ [][NextLint]_vars

(* What yaml.Unmarshal, os.ReadFile and loadLintConfig did for the file.   *)
ConfigLoaded == loadLintConfig.err = "nil"

DefaultPolicy == lintrc.cwd.kind = "absent" /\ lintrc.exe.kind = "absent"

Parses == file.kind = "doc" /\ ~yamlUnmarshal(file).err

ParseFails == file.kind # "unreadable" /\ yamlUnmarshal(file).err

IsInvalidYAML(errors) == Len(errors) = 1 /\ errors[1][1] = "Invalid YAML format: "

FixedFieldsValid ==
    /\ file.image.kind \in {"null", "absent"}
    /\ file.state = "visible"
    /\ file.version = "0.1"

WelcomeInNameOrRequirements ==
    \/ NameHasWelcome(file.name)
    \/ RequiresIgnoringCase(file.requirements, <<welcome>>)

DeclaredFilesFine ==
    \A i \in 1..Len(file.files) :
        LET st == fs[ResolvedPath(file.files[i])]
        IN  st.err = "nil" /\ st.size <= 1048576

DeclaredFilesExist ==
    \A i \in 1..Len(file.files) : fs[ResolvedPath(file.files[i])].err # "ENOENT"

(* C5 as stated: under the default policy a document that parses, with     *)
(* image null, state "visible", version "0.1", exactly one matching tag    *)
(* and "welcome" in its name or its requirements, has no errors.           *)
C5_ValidDocumentNoErrors_AsStated ==
    /\ (result.done /\ DefaultPolicy /\ Parses /\ FixedFieldsValid
            /\ MatchCount(file.tags, <<easy, medium, hard>>) = 1
            /\ WelcomeInNameOrRequirements)
        => result.Errors = <<>>
    /\ (resultMain.done /\ Parses /\ FixedFieldsValid
            /\ MatchCount(file.tags, <<introduction, easy, medium, hard>>) = 1
            /\ WelcomeInNameOrRequirements)
        => resultMain.Errors = <<>>

(* C5, amended: ... and whose declared files all exist (for part_000: can  *)
(* all be stat'ed and are no larger than 1 MiB) has no errors.             *)
C5_ValidDocumentNoErrors ==
    /\ (result.done /\ DefaultPolicy /\ Parses /\ FixedFieldsValid
            /\ MatchCount(file.tags, <<easy, medium, hard>>) = 1
            /\ WelcomeInNameOrRequirements
            /\ DeclaredFilesFine)
        => result.Errors = <<>>
    /\ (resultMain.done /\ Parses /\ FixedFieldsValid
            /\ MatchCount(file.tags, <<introduction, easy, medium, hard>>) = 1
            /\ WelcomeInNameOrRequirements
            /\ DeclaredFilesExist)
        => resultMain.Errors = <<>>

C5_Witness ==
    /\ result.done
    /\ resultMain.done
    /\ DefaultPolicy /\ Parses /\ FixedFieldsValid
    /\ file.tags = <<introduction, easy>>
    /\ ~NameHasWelcome(file.name)
    /\ file.requirements = <<other, Welcome>>
    /\ file.files = << <<"a">> >>
    /\ fs[<<"chal", "a">>] = [err |-> "nil", size |-> 1048576]
    /\ result.Errors = <<>>
    /\ result.calls # <<>>
    /\ resultMain.Errors # <<>>

(* C6: when parsing the descriptor fails, the result has exactly one       *)
(* error, which begins "Invalid YAML format:", and no check has run.       *)
C6_ParseFailureSingleError ==
    /\ (result.done /\ ConfigLoaded /\ ParseFails)
        => (IsInvalidYAML(result.Errors) /\ result.calls = <<>>
            /\ result.Name = <<>> /\ result.Description = "")
    /\ (resultMain.done /\ ParseFails)
        => (IsInvalidYAML(resultMain.Errors) /\ resultMain.calls = <<>>
            /\ resultMain.Name = <<>> /\ resultMain.Description = "")

C6_Witness ==
    /\ result.done
    /\ resultMain.done
    /\ DefaultPolicy
    /\ file.kind = "garbage"
    /\ file.tags = <<>>
    /\ IsInvalidYAML(result.Errors)
    /\ IsInvalidYAML(resultMain.Errors)

HasFlag(kind) == \E i \in 1..Len(file.flags) : file.flags[i].kind = kind

(* C7: a descriptor whose flags list holds a bare integer is malformed:    *)
(* exactly one "Invalid YAML format" diagnostic, and no check runs.        *)
C7_IntegerFlagIsMalformed ==
    (result.done /\ ConfigLoaded /\ file.kind = "doc" /\ HasFlag("int"))
        => (IsInvalidYAML(result.Errors) /\ result.calls = <<>>)

(* C8: a descriptor whose flag entries are structured records parses; if   *)
(* every other field is valid it has no errors, as with string flags.      *)
C8_StructuredFlagsParse ==
    (result.done /\ DefaultPolicy /\ file.kind = "doc"
        /\ HasFlag("map") /\ ~HasFlag("int")
        /\ FixedFieldsValid
        /\ MatchCount(file.tags, <<easy, medium, hard>>) = 1
        /\ WelcomeInNameOrRequirements
        /\ DeclaredFilesFine)
        => result.Errors = <<>>

-----------------------------------------------------------------------------
(* checkPatternMatch, and checkRequirements under condition "and", applied *)
(* to every author, requirements list and list of patterns.                *)

teStar == <<"t","e","*">>

TeStar == <<"T","e","*">>

esSpaced == <<" ","e","s"," ","*">>

bob == <<"b","o","b">>

Authors == {<<"t","e","s","t">>, <<"T","E","S","T">>, <<"a","l","i","c","e">>}

MatchReqs == {<<>>, <<other>>, <<Welcome, other>>}

MatchPatterns ==
    {[Type |-> "static", Values |-> v] : v \in {<<welcome>>, <<other, Welcome>>}}
        \cup {[Type |-> "regex", Values |-> v] :
                 v \in {<<teStar>>, <<TeStar>>, <<esSpaced>>, <<bob, teStar>>, <<>>}}
        \cup {[Type |-> t, Values |-> <<welcome>>] : t \in {"glob", ""}}

InitMatch ==
    /\ \E n \in {<<"x">>, welcome}, a \in Authors, q \in MatchReqs :
          file = [ValidDoc EXCEPT !.name = n, !.author = a, !.requirements = q]
    /\ \E ps \in SeqsUpTo(MatchPatterns, MaxRulePatterns) :
          lintrc = [cwd |-> LintrcDoc([getDefaultLintConfig EXCEPT
                                        !.Requirements = [Condition |-> "and",
                                                          Patterns |-> ps]]),
                    exe |-> LintrcAbsent]
    /\ fs = NothingOnDisk
    /\ out = NoOut
    /\ outMain = NoOut
    /\ result = NoResult
    /\ resultMain = NoResult
    /\ disk = NoDisk
    /\ github = NoGithub
    /\ run = NoRun

CallCheckPatternMatch ==
    /\ \E i \in 1..Len(ReqRuleInput.Patterns) :
          out' = [op |-> "checkPatternMatch", errors |-> <<>>, pattern |-> i,
                  matched |-> checkPatternMatch(yamlUnmarshal(file).challenge,
                                                ReqRuleInput.Patterns[i])]
    /\ UNCHANGED <<disk, github, run, file, lintrc, fs, outMain, result, resultMain>>

NextMatch == CallCheckPatternMatch \/ CallCheckRequirements

SpecMatch == InitMatch /\ [][NextMatch]_vars

(* The pattern checkPatternMatch was last applied to.                      *)
MatchedPattern == ReqRuleInput.Patterns[out.pattern]

PatternFails(p) ==
    IF p.Type = "static"
    THEN ~RequiresIgnoringCase(file.requirements, p.Values)
    ELSE ~checkPatternMatch(yamlUnmarshal(file).challenge, p)

FailureOf(p) == <<"Requirements validation failed for pattern type '", p.Type, "'">>

(* C11: for a name without "welcome" and a requirements rule with          *)
(* condition "and", checkRequirements emits one "Requirements validation   *)
(* failed for pattern type '<type>'" for each pattern the matcher rejects, *)
(* in pattern order, and none for a pattern that matches; a static pattern *)
(* matches iff some requirement equals some value ignoring letter case.    *)
C11_OnePerFailedPattern ==
    (out.op = "checkRequirements" /\ ReqRuleInput.Condition = "and"
        /\ ~NameHasWelcome(file.name))
        => LET failed == SelectSeq(ReqRuleInput.Patterns, PatternFails)
           IN  out.errors = [i \in 1..Len(failed) |-> FailureOf(failed[i])]

C11_Witness ==
    /\ out.op = "checkRequirements"
    /\ ~NameHasWelcome(file.name)
    /\ file.author = <<"a","l","i","c","e">>
    /\ file.requirements = <<Welcome, other>>
    /\ ReqRuleInput.Patterns = <<[Type |-> "static", Values |-> <<welcome>>],
                                 [Type |-> "regex", Values |-> <<bob, teStar>>]>>
    /\ out.errors = << <<"Requirements validation failed for pattern type '",
                          "regex", "'">> >>

(* A pattern value without one trailing "*", then without the blanks       *)
(* around it.                                                              *)
Normalized(value) ==
    LET v == IF Len(value) > 0 /\ value[Len(value)] = "*"
             THEN SubSeq(value, 1, Len(value) - 1) ELSE value
        inked == {i \in 1..Len(v) : v[i] \notin {" ", "\t", "\n", "\r"}}
    IN  IF inked = {} THEN <<>>
        ELSE SubSeq(v, CHOOSE i \in inked : \A j \in inked : i <= j,
                       CHOOSE i \in inked : \A j \in inked : i >= j)

SameLetter(a, b) == ToLowerChar(a) = ToLowerChar(b)

SubstringIgnoringCase(needle, hay) ==
    \E i \in 0..(Len(hay) - Len(needle)) :
        \A k \in 1..Len(needle) : SameLetter(hay[i + k], needle[k])

(* C12: for a pattern of type "regex" the matcher returns true iff some    *)
(* pattern value, without its trailing "*" and surrounding whitespace, is  *)
(* a substring of the author, letter case disregarded on either side.      *)
C12_RegexIgnoresCase ==
    (out.op = "checkPatternMatch" /\ MatchedPattern.Type = "regex")
        => out.matched
             = (\E i \in 1..Len(MatchedPattern.Values) :
                   SubstringIgnoringCase(Normalized(MatchedPattern.Values[i]),
                                         file.author))

IsUnknownType(p) == p.Type \notin {"static", "regex"}

IsUnknownTypeMsg(e) == e[2] \notin {"static", "regex"}

(* C13: for a pattern whose type is neither "static" nor "regex" the       *)
(* matcher returns false for every descriptor, so checkRequirements under  *)
(* "and" reports each such pattern, in order, for every descriptor whose   *)
(* name does not contain "welcome".                                        *)
C13_UnknownTypeFails ==
    /\ (out.op = "checkPatternMatch" /\ IsUnknownType(MatchedPattern))
        => out.matched = FALSE
    /\ (out.op = "checkRequirements" /\ ~NameHasWelcome(file.name))
        => LET unknown == SelectSeq(ReqRuleInput.Patterns, IsUnknownType)
           IN  SelectSeq(out.errors, IsUnknownTypeMsg)
                 = [i \in 1..Len(unknown) |-> FailureOf(unknown[i])]

C13_Witness ==
    /\ out.op = "checkRequirements"
    /\ ~NameHasWelcome(file.name)
    /\ file.requirements = <<Welcome, other>>
    /\ ReqRuleInput.Patterns = <<[Type |-> "glob", Values |-> <<welcome>>],
                                 [Type |-> "static", Values |-> <<welcome>>]>>
    /\ out.errors = << <<"Requirements validation failed for pattern type '",
                          "glob", "'">> >>

Occurrences(errors, text) ==
    Cardinality({i \in 1..Len(errors) : errors[i] = <<text>>})

FixedFieldErrors(errors) ==
    /\ Occurrences(errors, "Field 'image' should be null")
          = (IF file.image.kind \in {"null", "absent"} THEN 0 ELSE 1)
    /\ Occurrences(errors, "Field 'state' should be 'visible'")
          = (IF file.state = "visible" THEN 0 ELSE 1)
    /\ Occurrences(errors, "Field 'version' should be '0.1'")
          = (IF file.version = "0.1" THEN 0 ELSE 1)

(* C14: for every descriptor that is parsed, the result holds "Field       *)
(* 'image' should be null" once iff image is not null, "Field 'state'      *)
(* should be 'visible'" once iff state is not "visible", and "Field        *)
(* 'version' should be '0.1'" once iff version is not "0.1", whatever the  *)
(* other fields and the policy are.                                        *)
C14_FixedFieldsIndependent ==
    /\ (result.done /\ ConfigLoaded /\ Parses) => FixedFieldErrors(result.Errors)
    /\ (resultMain.done /\ Parses) => FixedFieldErrors(resultMain.Errors)

C14_Witness ==
    /\ result.done
    /\ resultMain.done
    /\ Parses
    /\ lintrc.cwd = LintrcDoc(TagsNoneConfig)
    /\ file.image = ValueNode
    /\ file.state = "visible"
    /\ file.version = "1.0"
    /\ file.tags = <<>>
    /\ file.requirements = <<>>
    /\ result.Errors
         = << <<"Requirements validation failed for pattern type '", "static", "'">>,
              <<"Field 'image' should be null">>,
              <<"Field 'version' should be '0.1'">> >>

HostIsSet == file.host.kind \notin {"null", "absent"}

(* C15: the host field must be null as the image field must: a descriptor  *)
(* whose host is not null is reported with an error.                       *)
C15_HostMustBeNull ==
    /\ (result.done /\ ConfigLoaded /\ Parses /\ HostIsSet) => result.Errors # <<>>
    /\ (resultMain.done /\ Parses /\ HostIsSet) => resultMain.Errors # <<>>

TypeWarning == <<"Field 'type' is 'standard', did you intend to use 'dynamic'?">>

(* C16: a descriptor of type "standard" yields the warning "Field 'type'   *)
(* is 'standard', did you intend to use 'dynamic'?" in a warnings list     *)
(* apart from the errors, which it leaves as they are; a descriptor of any *)
(* other type yields no warning.                                           *)
C16_StandardTypeWarns ==
    (result.done /\ ConfigLoaded /\ Parses)
        => /\ file.type = "standard"
                => ("Warnings" \in DOMAIN result /\ result.Warnings = <<TypeWarning>>)
           /\ file.type # "standard"
                => ("Warnings" \in DOMAIN result => result.Warnings = <<>>)
           /\ \A i \in 1..Len(result.Errors) : result.Errors[i] # TypeWarning

-----------------------------------------------------------------------------
(* loadLintConfig under every state of lintrc.yaml in the working          *)
(* directory and of lintrc.yaml in the directory of os.Args[0].            *)

EmptyRule == [Condition |-> "", Patterns |-> <<>>]

Policies ==
    {getDefaultLintConfig, TagsNoneConfig, ReqsNoneConfig,
     [Tags |-> EmptyRule, Requirements |-> EmptyRule],
     [Tags |-> [Condition |-> "and",
                Patterns |-> <<[Type |-> "static", Values |-> <<introduction>>]>>],
      Requirements |-> EmptyRule]}

LintrcFiles ==
    {[kind |-> k, config |-> getDefaultLintConfig] : k \in {"absent", "unreadable", "garbage"}}
        \cup {LintrcDoc(c) : c \in Policies}

InitConfig ==
    /\ file = ValidDoc
    /\ lintrc \in [cwd : LintrcFiles, exe : LintrcFiles]
    /\ fs = NothingOnDisk
    /\ out = NoOut
    /\ outMain = NoOut
    /\ result = NoResult
    /\ resultMain = NoResult
    /\ disk = NoDisk
    /\ github = NoGithub
    /\ run = NoRun

CallLoadLintConfig ==
    /\ out' = [op |-> "loadLintConfig", errors |-> <<>>,
               err |-> loadLintConfig.err, config |-> loadLintConfig.config]
    /\ UNCHANGED <<disk, github, run, file, lintrc, fs, outMain, result, resultMain>>

NextConfig == CallLoadLintConfig

SpecConfig == InitConfig /\ [][NextConfig]_vars

(* C19: when lintrc.yaml is neither in the working directory nor next to   *)
(* the executable, loadLintConfig returns without error the default        *)
(* policy: tags "and" with one static pattern [easy, medium, hard],        *)
(* requirements "and" with one static pattern [welcome]; when a policy     *)
(* file is found, the default is not used: the file's policy is returned,  *)
(* or an error if the file cannot be read or parsed.                       *)
C19_DefaultOnlyWhenNoFile ==
    out.op = "loadLintConfig"
        => IF lintrc.cwd.kind = "absent" /\ lintrc.exe.kind = "absent"
           THEN /\ out.err = "nil"
                /\ out.config
                     = [Tags |-> [Condition |-> "and",
                                  Patterns |-> <<[Type |-> "static",
                                                  Values |-> <<easy, medium, hard>>]>>],
                        Requirements |-> [Condition |-> "and",
                                          Patterns |-> <<[Type |-> "static",
                                                          Values |-> <<welcome>>]>>]]
           ELSE LET found == IF lintrc.cwd.kind # "absent" THEN lintrc.cwd
                             ELSE lintrc.exe
                IN  IF found.kind = "doc"
                    THEN out.err = "nil" /\ out.config = found.config
                    ELSE out.err # "nil"

C19_Witness ==
    /\ out.op = "loadLintConfig"
    /\ lintrc.cwd.kind = "absent"
    /\ lintrc.exe.kind = "absent"
    /\ out.err = "nil"
    /\ out.config.Tags.Patterns[1].Values = <<easy, medium, hard>>

-----------------------------------------------------------------------------
(* main of both generations: argument handling, findChangedDirectories,    *)
(* lintChallenges over each directory, the report and the exit status.     *)
(* lintrc.yaml may be rewritten while a directory is being walked.         *)

MaxPolicyChanges == 1

descriptorName(gen) == IF gen = "main" THEN "challenges.yaml" ELSE "challenge.yml"

G == <<"g">>

C1 == <<"g", "c1">>

C2 == <<"g", "c2">>

DescriptorDirs == {G, C1, C2}

(* The names a directory of the tree can hold, as filepath.Walk sorts them. *)
NameOrder == <<"c1", "c2", "challenge.yml", "challenges.yaml", "g">>

IsDir(path) == path = <<>> \/ path \in DescriptorDirs

Exists(path) ==
    \/ IsDir(path)
    \/ /\ Len(path) > 1
       /\ FilepathDir(path) \in DescriptorDirs
       /\ path[Len(path)] = descriptorName(run.gen)
       /\ disk.tree[FilepathDir(path)] # "none"

readDirNames(dir) == SelectSeq(NameOrder, LAMBDA n : Exists(Append(dir, n)))

(* filepath.Walk: the calls of the callback in order, each with the path   *)
(* and whether it is handed an error.                                      *)
RECURSIVE walk(_), walkNames(_, _)
walk(path) ==
    IF ~IsDir(path) THEN <<[path |-> path, err |-> FALSE]>>
    ELSE IF path \in disk.noAccess THEN <<[path |-> path, err |-> TRUE]>>
    ELSE <<[path |-> path, err |-> FALSE]>> \o walkNames(path, readDirNames(path))

walkNames(dir, names) ==
    IF names = <<>> THEN <<>>
    ELSE walk(Append(dir, Head(names))) \o walkNames(dir, Tail(names))

Walk(root) == IF ~Exists(root) THEN <<[path |-> root, err |-> TRUE]>> ELSE walk(root)

callbackLints_wholePath(gen, path) == path = <<descriptorName(gen)>>

callbackLints(gen, path) == path # <<>> /\ path[Len(path)] = descriptorName(gen)

(* The calls of the callback that do something: return the error, or lint. *)
walkEvents(root) ==
    SelectSeq(Walk(root), LAMBDA v : v.err \/ callbackLints(run.gen, v.path))

hasLintErrors_firstOnly(results) ==
    IF results = <<>> THEN FALSE
    ELSE Len(Head(results).Errors) > 0

RECURSIVE hasLintErrors(_)
hasLintErrors(results) ==
    IF results = <<>> THEN FALSE
    ELSE IF Len(Head(results).Errors) > 0 THEN TRUE
    ELSE hasLintErrors(Tail(results))

(* findChangedDirectories: the upward search from a changed file's         *)
(* directory for a directory holding a descriptor.                         *)
(* The number of directories the search looks into, from "current" up.    *)
RECURSIVE searchUpSteps(_)
searchUpSteps(current) ==
    IF current = <<>> \/ current = <<"/">> THEN 0
    ELSE IF Exists(Append(current, descriptorName(run.gen))) THEN 1
    ELSE 1 + searchUpSteps(FilepathDir(current))

RECURSIVE searchUp_noBreak(_)
searchUp_noBreak(current) ==
    IF current = <<>> \/ current = <<"/">> THEN {}
    ELSE (IF Exists(Append(current, descriptorName(run.gen))) THEN {current} ELSE {})
            \cup searchUp_noBreak(FilepathDir(current))

RECURSIVE searchUp(_)
searchUp(current) ==
    IF current = <<>> \/ current = <<"/">> THEN {}
    ELSE IF Exists(Append(current, descriptorName(run.gen))) THEN {current}
    ELSE searchUp(FilepathDir(current))

dirSet(files) ==
    UNION {IF f[Len(f)] = descriptorName(run.gen) THEN {FilepathDir(f)}
           ELSE searchUp(FilepathDir(f)) : f \in {files[i] : i \in 1..Len(files)}}

(* Ranging over a Go map yields its keys in an unspecified order.          *)
MapOrders(set) ==
    {order \in [1..Cardinality(set) -> set] :
        \A i, j \in 1..Cardinality(set) : order[i] = order[j] => i = j}

(* What a directory of the tree holds under the descriptor's name: nothing, *)
(* a descriptor valid under every policy, one whose tag "Easy" only passes  *)
(* when the tags rule is off, or a file that is not YAML.                   *)
descriptorFile(kind) ==
    CASE kind = "good" -> ValidDoc
      [] kind = "badTag" -> [ValidDoc EXCEPT !.tags = <<Easy>>]
      [] kind = "garbage" -> [ValidDoc EXCEPT !.kind = "garbage"]

Trees ==
    {t \in [DescriptorDirs -> {"none", "good", "badTag", "garbage"}] :
        t[G] \in {"none", "good"}}

TargetDirLists == {<<>>, <<G>>, <<C1, C2>>, <<G, C1>>, << <<"missing">> >>}

PRFileLists(gen) ==
    {<<>>,
     <<Append(C1, descriptorName(gen))>>,
     <<Append(C1, "x.txt"), Append(C2, descriptorName(gen))>>,
     << <<"g", "c1", "sub", "x.txt">>, <<"g", "x.txt">> >>,
     << <<"README.md">> >>,
     <<Append(C1, descriptorName(gen)), Append(C1, "x.txt"), <<"g", "x.txt">> >>}

(* config.yaml in the working directory: absent, or listing the genres.   *)
ConfigYamls == {NoConfigYaml, [present |-> TRUE, genre |-> {"web", "misc"}]}

MainLintrcs ==
    {NoLintrc,
     [cwd |-> LintrcDoc(TagsNoneConfig), exe |-> LintrcAbsent],
     [cwd |-> [kind |-> "garbage", config |-> getDefaultLintConfig], exe |-> LintrcAbsent],
     [cwd |-> LintrcAbsent, exe |-> [kind |-> "unreadable", config |-> getDefaultLintConfig]]}

(* strings.Split(s, "/")                                                   *)
RECURSIVE Split(_)
Split(s) ==
    IF \A i \in 1..Len(s) : s[i] # "/" THEN <<s>>
    ELSE LET i == CHOOSE k \in 1..Len(s) : s[k] = "/" /\ \A j \in 1..(k - 1) : s[j] # "/"
         IN  <<SubSeq(s, 1, i - 1)>> \o Split(SubSeq(s, i + 1, Len(s)))

RECURSIVE DecimalValue(_)
DecimalValue(s) ==
    IF s = <<>> THEN 0
    ELSE 10 * DecimalValue(SubSeq(s, 1, Len(s) - 1))
         + (CHOOSE d \in 0..9 : Digits[d + 1] = s[Len(s)])

(* strconv.Atoi, on numbers that fit an int                                *)
Atoi(s) ==
    LET signed == s # <<>> /\ s[1] \in {"+", "-"}
        body == IF signed THEN Tail(s) ELSE s
        ok == body # <<>> /\ \A i \in 1..Len(body) : \E d \in 1..10 : Digits[d] = body[i]
    IN  IF ~ok THEN [err |-> TRUE, value |-> 0]
        ELSE [err |-> FALSE,
              value |-> IF signed /\ s[1] = "-" THEN -DecimalValue(body)
                        ELSE DecimalValue(body)]

NoEnv == [token |-> <<>>, owner |-> <<>>, repo |-> <<>>, prNumber |-> 0, commentPR |-> FALSE]

getEnv(environ) ==
    LET token == environ.GITHUB_TOKEN
        repository == IF environ.INPUT_REPOSITORY = <<>> THEN environ.GITHUB_REPOSITORY
                      ELSE environ.INPUT_REPOSITORY
        repoPath == Split(repository)
        prNumberStr == IF environ.INPUT_PR_NUMBER = <<>> THEN environ.PR_NUMBER
                       ELSE environ.INPUT_PR_NUMBER
        prNumber == Atoi(prNumberStr)
    IN  IF token = <<>>
        THEN [err |-> "GITHUB_TOKEN environment variable is required", env |-> NoEnv]
        ELSE IF repository = <<>>
        THEN [err |-> "INPUT_REPOSITORY or GITHUB_REPOSITORY environment variable is required",
              env |-> NoEnv]
        ELSE IF Len(repoPath) # 2
        THEN [err |-> "invalid repository format", env |-> NoEnv]
        ELSE IF prNumberStr = <<>>
        THEN [err |-> "INPUT_PR_NUMBER or PR_NUMBER environment variable is required",
              env |-> NoEnv]
        ELSE IF prNumber.err
        THEN [err |-> "invalid PR number", env |-> NoEnv]
        ELSE [err |-> "nil",
              env |-> [token |-> token, owner |-> repoPath[1], repo |-> repoPath[2],
                       prNumber |-> prNumber.value, commentPR |-> TRUE]]

GoodEnviron ==
    [GITHUB_TOKEN |-> <<"t">>, INPUT_REPOSITORY |-> <<"o", "/", "r">>,
     GITHUB_REPOSITORY |-> <<>>, INPUT_PR_NUMBER |-> <<"1", "2">>, PR_NUMBER |-> <<>>]

(* The environment variables of a run with the given fault.               *)
Environ(fault) ==
    CASE fault = "token" -> [GoodEnviron EXCEPT !.GITHUB_TOKEN = <<>>]
      [] fault = "repo" -> [GoodEnviron EXCEPT !.INPUT_REPOSITORY = <<>>]
      [] fault = "repoFormat" ->
            [GoodEnviron EXCEPT !.INPUT_REPOSITORY = <<>>,
                                !.GITHUB_REPOSITORY = <<"o", "/", "r", "/", "x">>]
      [] fault = "pr" -> [GoodEnviron EXCEPT !.INPUT_PR_NUMBER = <<>>]
      [] fault = "prFormat" -> [GoodEnviron EXCEPT !.INPUT_PR_NUMBER = <<"1", "x">>]
      [] fault = "fallback" ->
            [GoodEnviron EXCEPT !.INPUT_REPOSITORY = <<>>,
                                !.GITHUB_REPOSITORY = <<"o", "/", "r">>,
                                !.INPUT_PR_NUMBER = <<>>, !.PR_NUMBER = <<"-", "3">>]
      [] OTHER -> GoodEnviron

Faults ==
    {"none", "fallback", "token", "repo", "repoFormat", "pr", "prFormat", "list", "post",
     "walk"}

Github(environ, files, listFails, postFails) ==
    [environ |-> environ, files |-> files, listFails |-> listFails,
     postFails |-> postFails, comments |-> <<>>]

Run(gen, jsonOutput, commentPR, targetDirs) ==
    [pc |-> "main", gen |-> gen, jsonOutput |-> jsonOutput, commentPR |-> commentPR,
     targetDirs |-> targetDirs, dirs |-> <<>>, walking |-> FALSE, walk |-> <<>>,
     changedDirs |-> <<>>,
     results |-> <<>>, returned |-> <<>>, allResults |-> <<>>, loaded |-> <<>>,
     changes |-> 0, stdout |-> [kind |-> "none"], fatal |-> "", status |-> 0,
     previous |-> [done |-> FALSE, results |-> <<>>]]

(* One fault at most in a run: no token, a failing API call, a directory    *)
(* that cannot be read.                                                     *)
InitMain ==
    /\ \E gen \in {"config", "main"} :
          \/ /\ \E jsonOutput \in BOOLEAN, targetDirs \in TargetDirLists :
                   run = Run(gen, jsonOutput, FALSE, targetDirs)
             /\ github = NoGithub
             /\ \E tree \in Trees, noAccess \in {{}, {C2}}, config \in ConfigYamls :
                   disk = [tree |-> tree, noAccess |-> noAccess, config |-> config]
          \/ /\ run = Run(gen, FALSE, TRUE, <<>>)
             /\ \E files \in PRFileLists(gen),
                   fault \in Faults :
                   /\ github = Github(Environ(fault), files, fault = "list",
                                      fault = "post")
                   /\ \E tree \in Trees :
                         disk = [tree |-> tree,
                                 noAccess |-> IF fault = "walk" THEN {C2} ELSE {},
                                 config |-> NoConfigYaml]
    /\ lintrc \in MainLintrcs
    /\ file = ValidDoc
    /\ fs = NothingOnDisk
    /\ out = NoOut
    /\ outMain = NoOut
    /\ result = NoResult
    /\ resultMain = NoResult

Fatal_returns(what) == [run EXCEPT !.pc = "exit", !.fatal = what]

Fatal(what) == [run EXCEPT !.pc = "exit", !.fatal = what, !.status = 1]

Exit(r, hasErrors) == [r EXCEPT !.pc = "exit", !.status = IF hasErrors THEN 1 ELSE 0]

(* main up to the first directory: the arguments and, with --comment-pr,   *)
(* getEnv.                                                                 *)
ParseArgs ==
    /\ run.pc = "main"
    /\ run' = IF run.commentPR
              THEN IF getEnv(github.environ).err # "nil" THEN Fatal("env")
                   ELSE [run EXCEPT !.pc = "findChanged"]
              ELSE [run EXCEPT !.pc = "lint",
                               !.dirs = IF run.targetDirs = <<>> THEN << <<>> >>
                                        ELSE run.targetDirs]
    /\ UNCHANGED <<file, lintrc, fs, out, outMain, result, resultMain, disk, github>>

FindChangedDirectories ==
    /\ run.pc = "findChanged"
    /\ IF github.listFails
       THEN run' = Fatal("list") /\ github' = github
       ELSE \E changedDirs \in MapOrders(dirSet(github.files)) :
              IF changedDirs # <<>>
              THEN /\ run' = [run EXCEPT !.pc = "lint", !.dirs = changedDirs,
                                         !.changedDirs = changedDirs]
                   /\ github' = github
              ELSE IF github.postFails
              THEN run' = Fatal("post") /\ github' = github
              ELSE /\ github' = [github EXCEPT
                                   !.comments = Append(@, [kind |-> "noChanges"])]
                   /\ run' = Exit(run, FALSE)
    /\ UNCHANGED <<file, lintrc, fs, out, outMain, result, resultMain, disk>>

(* lintChallenges(Head(run.dirs)) starts its walk.                         *)
LintChallenges ==
    /\ run.pc = "lint"
    /\ ~run.walking
    /\ run.dirs # <<>>
    /\ run' = [run EXCEPT !.walking = TRUE, !.walk = walkEvents(Head(run.dirs)),
                          !.results = <<>>]
    /\ UNCHANGED <<file, lintrc, fs, out, outMain, result, resultMain, disk, github>>

(* The walk's callback: it returns the error it is handed, which ends      *)
(* lintChallenges and, by log.Fatalf, the run; or it lints the descriptor. *)
WalkCallback ==
    /\ run.pc = "lint"
    /\ run.walking
    /\ run.walk # <<>>
    /\ UNCHANGED <<lintrc, fs, out, outMain, disk, github>>
    /\ IF Head(run.walk).err
       THEN /\ run' = [Fatal("walk") EXCEPT
                         !.returned = Append(@, [dir |-> Head(run.dirs),
                                                 results |-> run.results,
                                                 err |-> TRUE])]
            /\ UNCHANGED <<file, result, resultMain>>
       ELSE \E path \in {Head(run.walk).path} :
              /\ file' = descriptorFile(disk.tree[FilepathDir(path)])
              /\ IF run.gen = "main"
                 THEN /\ resultMain' = lintChallengeFile_main(path)'
                      /\ result' = result
                      /\ run' = [run EXCEPT !.walk = Tail(@),
                                            !.results = Append(@, resultMain')]
                 ELSE /\ result' = lintChallengeFile(path)'
                      /\ resultMain' = resultMain
                      /\ run' = [run EXCEPT !.walk = Tail(@),
                                            !.results = Append(@, result'),
                                            !.loaded = Append(@, loadLintConfig)]

LintChallengesReturn_postsEach ==
    /\ run.pc = "lint"
    /\ run.walking
    /\ run.walk = <<>>
    /\ run' = [run EXCEPT !.walking = FALSE, !.dirs = Tail(@),
                          !.allResults = @ \o run.results,
                          !.returned = Append(@, [dir |-> Head(run.dirs),
                                                  results |-> run.results,
                                                  err |-> FALSE])]
    /\ github' = IF run.commentPR /\ ~github.postFails
                 THEN [github EXCEPT
                         !.comments = Append(@, [kind |-> "results",
                                                 hasErrors |-> hasLintErrors(run'.allResults),
                                                 results |-> run'.allResults])]
                 ELSE github
    /\ UNCHANGED <<file, lintrc, fs, out, outMain, result, resultMain, disk>>

(* The walk is over: lintChallenges returns and main appends the results.  *)
LintChallengesReturn ==
    /\ run.pc = "lint"
    /\ run.walking
    /\ run.walk = <<>>
    /\ run' = [run EXCEPT !.walking = FALSE, !.dirs = Tail(@),
                          !.allResults = @ \o run.results,
                          !.returned = Append(@, [dir |-> Head(run.dirs),
                                                  results |-> run.results,
                                                  err |-> FALSE])]
    /\ UNCHANGED <<file, lintrc, fs, out, outMain, result, resultMain, disk, github>>

TextLine(r) == [ok |-> Len(r.Errors) = 0, file |-> r.File]

Report ==
    /\ run.pc = "lint"
    /\ ~run.walking
    /\ run.dirs = <<>>
    /\ LET hasErrors == hasLintErrors(run.allResults)
       IN  IF run.commentPR
           THEN IF github.postFails
                THEN run' = Fatal("post") /\ github' = github
                ELSE /\ github' = [github EXCEPT
                                     !.comments = Append(@, [kind |-> "results",
                                                             hasErrors |-> hasErrors,
                                                             results |-> run.allResults])]
                     /\ run' = Exit(run, hasErrors)
           ELSE /\ github' = github
                /\ run' = Exit([run EXCEPT
                                  !.stdout =
                                     IF run.jsonOutput
                                     THEN [kind |-> "json", success |-> ~hasErrors,
                                           results |-> run.allResults]
                                     ELSE [kind |-> "text",
                                           lines |-> [i \in 1..Len(run.allResults) |->
                                                        TextLine(run.allResults[i])],
                                           allPassed |-> ~hasErrors]],
                                hasErrors)
    /\ UNCHANGED <<file, lintrc, fs, out, outMain, result, resultMain, disk>>

(* Someone rewrites lintrc.yaml while a directory is being walked.         *)
LintrcRewritten ==
    /\ run.pc = "lint"
    /\ run.walking
    /\ run.changes < MaxPolicyChanges
    /\ lintrc' \in MainLintrcs \ {lintrc}
    /\ run' = [run EXCEPT !.changes = @ + 1]
    /\ UNCHANGED <<file, fs, out, outMain, result, resultMain, disk, github>>

NextMain ==
    \/ ParseArgs
    \/ FindChangedDirectories
    \/ LintChallenges
    \/ WalkCallback
    \/ LintChallengesReturn
    \/ Report
    \/ LintrcRewritten

SpecMain == InitMain /\ [][NextMain]_vars

-----------------------------------------------------------------------------
(* The program run a second time with the same arguments, on the same     *)
(* files, the same lintrc.yaml and the same pull request.                  *)

RunAgain ==
    /\ run.pc = "exit"
    /\ run.fatal = ""
    /\ ~run.previous.done
    /\ run' = [Run(run.gen, run.jsonOutput, run.commentPR, run.targetDirs) EXCEPT
                 !.previous = [done |-> TRUE, results |-> run.allResults]]
    /\ UNCHANGED <<file, lintrc, fs, out, outMain, result, resultMain, disk, github>>

NextRerun ==
    \/ ParseArgs
    \/ FindChangedDirectories
    \/ LintChallenges
    \/ WalkCallback
    \/ LintChallengesReturn
    \/ Report
    \/ RunAgain

SpecRerun == InitMain /\ [][NextRerun]_vars

-----------------------------------------------------------------------------

AnyErrors == \E i \in 1..Len(run.allResults) : run.allResults[i].Errors # <<>>

(* C17: a run without batch-level error fails (exit status 1, "success"    *)
(* false in the JSON output) iff some LintResult of the report has an      *)
(* error; with no results or only error-free results it succeeds, in       *)
(* local, JSON and comment-PR mode alike.                                  *)
C17_FailsIffSomeError ==
    (run.pc = "exit" /\ run.fatal = "")
        => /\ run.status = (IF AnyErrors THEN 1 ELSE 0)
           /\ run.stdout.kind = "json" => run.stdout.success = ~AnyErrors
           /\ run.stdout.kind = "text" => run.stdout.allPassed = ~AnyErrors

C17_Witness ==
    /\ run.pc = "exit"
    /\ run.fatal = ""
    /\ run.stdout.kind = "json"
    /\ Len(run.allResults) = 2
    /\ run.allResults[1].Errors = <<>>
    /\ run.allResults[2].Errors # <<>>
    /\ run.stdout.success = FALSE
    /\ run.status = 1

(* The directories of the tree in the order a walk meets their             *)
(* descriptors: g/c1/<descriptor>, g/c2/<descriptor>, g/<descriptor>.      *)
TraversalOrder == <<C1, C2, G>>

IsUnder(dir, root) == Len(root) <= Len(dir) /\ SubSeq(dir, 1, Len(root)) = root

DescriptorsUnder(root) ==
    LET holds(d) == disk.tree[d] # "none" /\ IsUnder(d, root)
        holding == SelectSeq(TraversalOrder, holds)
    IN  [i \in 1..Len(holding) |-> Append(holding[i], descriptorName(run.gen))]

(* C18: lintChallenges returns one LintResult for each file under the root *)
(* that bears the descriptor's name, in traversal order; a descriptor that *)
(* does not parse or has errors has its own result and the descriptors     *)
(* after it are linted all the same.                                       *)
C18_OneResultPerDescriptor ==
    \A k \in 1..Len(run.returned) :
        ~run.returned[k].err
            => LET results == run.returned[k].results
               IN  /\ [i \in 1..Len(results) |-> results[i].File]
                        = DescriptorsUnder(run.returned[k].dir)
                   /\ \A i \in 1..Len(results) : results[i].done

C18_Witness ==
    /\ Len(run.returned) = 1
    /\ run.returned[1].dir = G
    /\ ~run.returned[1].err
    /\ disk.tree[C1] = "garbage"
    /\ disk.tree[C2] = "badTag"
    /\ disk.tree[G] = "good"
    /\ Len(run.returned[1].results) = 3
    /\ IsInvalidYAML(run.returned[1].results[1].Errors)
    /\ run.returned[1].results[3].Errors = <<>>

(* C20: the policy is loaded once per run and every descriptor of the run  *)
(* is checked against that one policy, even if lintrc.yaml changes between *)
(* two descriptors.                                                        *)
C20_OnePolicyPerRun ==
    \A i, j \in 1..Len(run.loaded) : run.loaded[i] = run.loaded[j]

Concat(seqs) ==
    LET RECURSIVE upTo(_)
        upTo(k) == IF k = 0 THEN <<>> ELSE upTo(k - 1) \o seqs[k]
    IN  upTo(Len(seqs))

(* C21: with --comment-pr a run posts at most one comment, and posts it    *)
(* only after every changed directory has been linted, so that it carries  *)
(* the complete list of results; when no directory is affected one "no     *)
(* changes" comment is posted, nothing is linted and the run succeeds;     *)
(* without --comment-pr no comment is ever posted.                         *)
C21_OneCommentAfterLinting ==
    /\ Len(github.comments) <= 1
    /\ ~run.commentPR => github.comments = <<>>
    /\ \A c \in 1..Len(github.comments) :
          IF github.comments[c].kind = "results"
          THEN /\ run.changedDirs # <<>>
               /\ [k \in 1..Len(run.returned) |-> run.returned[k].dir] = run.changedDirs
               /\ \A k \in 1..Len(run.returned) : ~run.returned[k].err
               /\ github.comments[c].results
                    = Concat([k \in 1..Len(run.returned) |-> run.returned[k].results])
               /\ github.comments[c].results = run.allResults
          ELSE /\ run.returned = <<>>
               /\ run.allResults = <<>>
               /\ run.loaded = <<>>
               /\ run.pc = "exit" /\ run.status = 0
    /\ (run.pc = "exit" /\ run.commentPR /\ run.fatal = "" /\ run.changedDirs = <<>>)
          => github.comments = <<[kind |-> "noChanges"]>>

C21_Witness ==
    /\ run.pc = "exit"
    /\ run.commentPR
    /\ Len(run.changedDirs) = 2
    /\ Len(run.returned) = 2
    /\ Len(github.comments) = 1
    /\ github.comments[1].kind = "results"
    /\ Len(github.comments[1].results) >= 2

Chosen(first, second) == IF first # <<>> THEN first ELSE second

IsInteger(s) ==
    \E sign \in {<<>>, <<"+">>, <<"-">>} :
        \E digits \in UNION {[1..n -> {Digits[d] : d \in 1..10}] : n \in 1..Len(s)} :
            s = sign \o digits

(* The GitHub environment is missing or malformed: no token, no repository *)
(* of the form owner/repo, or no PR number that is an integer.             *)
EnvironBroken ==
    LET e == github.environ
        repository == Chosen(e.INPUT_REPOSITORY, e.GITHUB_REPOSITORY)
        number == Chosen(e.INPUT_PR_NUMBER, e.PR_NUMBER)
    IN  \/ e.GITHUB_TOKEN = <<>>
        \/ Cardinality({i \in 1..Len(repository) : repository[i] = "/"}) # 1
        \/ ~IsInteger(number)

WalkFailed == \E k \in 1..Len(run.returned) : run.returned[k].err

(* C22: every batch-level error (a failed directory walk, a missing or     *)
(* malformed GitHub environment, a failure listing the PR's files, a       *)
(* failure posting the comment) ends the run with a non-zero status; a     *)
(* failed walk with --comment-pr ends it before any comment is posted; no  *)
(* run ends with status zero after such an error.                          *)
C22_BatchErrorsAreFatal ==
    /\ (run.pc = "exit" /\ run.commentPR /\ EnvironBroken)
          => (run.status # 0 /\ run.returned = <<>> /\ github.comments = <<>>)
    /\ (run.pc = "exit" /\ run.commentPR /\ ~EnvironBroken /\ github.listFails)
          => (run.status # 0 /\ run.returned = <<>> /\ github.comments = <<>>)
    /\ (run.pc = "exit" /\ run.commentPR /\ ~EnvironBroken /\ github.postFails)
          => (run.status # 0 /\ github.comments = <<>>)
    /\ WalkFailed => (run.pc = "exit" /\ run.status # 0 /\ github.comments = <<>>)
    /\ (run.pc = "exit" /\ ~run.commentPR
            /\ \E i \in 1..Len(run.targetDirs) : run.targetDirs[i] \notin DescriptorDirs)
          => (run.status # 0 /\ run.stdout.kind = "none")
    /\ run.pc # "exit" => run.status = 0

C22_Witness ==
    /\ run.pc = "exit"
    /\ run.commentPR
    /\ Len(run.returned) = 2
    /\ ~run.returned[1].err
    /\ run.returned[1].results # <<>>
    /\ run.returned[2].err
    /\ run.status = 1
    /\ github.comments = <<>>

DefaultRequirementsRule ==
    [Condition |-> "and",
     Patterns |-> <<[Type |-> "static", Values |-> <<welcome>>]>>]

(* C23: under the default requirements rule the requirements check of      *)
(* main.go and that of part_000 agree: for every name and requirements     *)
(* list one returns an error iff the other does, and each returns at most  *)
(* one.                                                                    *)
C23_HardCodedIsDefaultPolicy ==
    (out.op = "checkRequirements" /\ outMain.op = "checkRequirements"
        /\ ReqRuleInput = DefaultRequirementsRule)
        => /\ (out.errors # <<>>) <=> (outMain.errors # <<>>)
           /\ Len(out.errors) <= 1
           /\ Len(outMain.errors) <= 1

C23_Witness ==
    /\ out.op = "checkRequirements"
    /\ outMain.op = "checkRequirements"
    /\ ReqRuleInput = DefaultRequirementsRule
    /\ file.name = <<"w","e","l","c","o","m">>
    /\ file.requirements = <<other, Welcome>>
    /\ out.errors = <<>>
    /\ outMain.errors = <<>>

(* The one outcome of a declared file: which diagnostic, if any.           *)
OutcomeOf(f) ==
    LET st == fs[ResolvedPath(f)]
    IN  IF st.err = "ENOENT" THEN "File specified in 'files' does not exist: "
        ELSE IF st.err # "nil" THEN "Error accessing file: "
        ELSE IF st.size >= 1048577 THEN "File '"
        ELSE "nothing"

HasDiagnostic(f) == OutcomeOf(f) # "nothing"

(* C24: in checkFiles of part_000 each declared file has one of four       *)
(* outcomes and one diagnostic at most: "does not exist" when it is        *)
(* missing, "Error accessing file" when stat fails otherwise, "is too      *)
(* large" when it exists and exceeds 1 MiB, or nothing; a missing file is  *)
(* reported whatever the size check is, and there are never more           *)
(* diagnostics than declared files.                                        *)
C24_OneOutcomePerFile ==
    out.op = "checkFiles"
        => LET reported == SelectSeq(file.files, HasDiagnostic)
           IN  /\ Len(out.errors) = Len(reported)
               /\ Len(out.errors) <= Len(file.files)
               /\ \A i \in 1..Len(reported) :
                     /\ out.errors[i][1] = OutcomeOf(reported[i])
                     /\ SubSeq(out.errors[i], 2, 1 + Len(Spelled(reported[i])))
                          = Spelled(reported[i])

C24_Witness ==
    /\ out.op = "checkFiles"
    /\ file.files = << <<"a">>, <<"..", "a">> >>
    /\ fs[<<"chal", "a">>] = [err |-> "EACCES", size |-> 0]
    /\ fs[<<"a">>] = [err |-> "ENOENT", size |-> 0]
    /\ out.errors
         = << <<"Error accessing file: ", "a", " (", "EACCES", ")">>,
              <<"File specified in 'files' does not exist: ", "..", "/", "a">> >>

(* C25: when config.yaml lists genres, only descriptors under a directory  *)
(* whose top-level name is listed are processed; a descriptor elsewhere is *)
(* skipped and yields no LintResult.                                       *)
C25_GenreFiltering ==
    disk.config.present
        => /\ \A i \in 1..Len(run.results) : run.results[i].File[1] \in disk.config.genre
           /\ \A i \in 1..Len(run.allResults) :
                 run.allResults[i].File[1] \in disk.config.genre

(* The results of the run so far, those of the walk in progress included.  *)
Linted == run.allResults \o (IF run.walking THEN run.results ELSE <<>>)

PolicyBroken(i) == run.loaded[i].err # "nil"

(* C26: when lintrc.yaml is there but cannot be read or parsed, the result *)
(* of a descriptor has the one error "Failed to load lint config: ...",    *)
(* no name, no description, and no check has run: the default policy is    *)
(* not used instead.  The walk goes on, so a run whose policy file is      *)
(* unusable throughout has one such result per descriptor and fails.       *)
C26_PolicyLoadErrorPerDescriptor ==
    run.gen = "config"
        => /\ Len(run.loaded) = Len(Linted)
           /\ \A i \in 1..Len(run.loaded) :
                 PolicyBroken(i)
                    => /\ Linted[i].Errors = <<MsgLoadConfig(run.loaded[i].err)>>
                       /\ Linted[i].Name = <<>>
                       /\ Linted[i].Description = ""
                       /\ Linted[i].calls = <<>>
           /\ (/\ run.pc = "exit"
               /\ run.fatal = ""
               /\ \A i \in 1..Len(run.loaded) : PolicyBroken(i))
                 => /\ [i \in 1..Len(run.allResults) |-> run.allResults[i].File]
                         = Concat([k \in 1..Len(run.returned) |->
                                     DescriptorsUnder(run.returned[k].dir)])
                    /\ \A i \in 1..Len(run.allResults) : Len(run.allResults[i].Errors) = 1
                    /\ run.allResults # <<>> => run.status = 1

C26_Witness ==
    /\ run.gen = "config"
    /\ run.pc = "exit"
    /\ run.fatal = ""
    /\ lintrc.cwd.kind = "garbage"
    /\ Len(run.allResults) = 3
    /\ \A i \in 1..3 : PolicyBroken(i)
    /\ disk.tree[C1] = "good"
    /\ run.allResults[1].Errors = <<MsgLoadConfig("failed to parse lintrc.yaml")>>
    /\ run.allResults[3].calls = <<>>
    /\ run.status = 1

IsStatic(pattern) == pattern.Type = "static"

(* C27: under the condition "and" the tags rule reports static patterns    *)
(* only: a pattern of type "regex" or of an unknown type yields no         *)
(* diagnostic whatever the tags are, so there is at most one diagnostic    *)
(* per static pattern.  The requirements rule differs: there a pattern of  *)
(* any type that is not matched is reported.                               *)
C27_TagsRuleStaticOnly ==
    /\ (out.op = "checkTags" /\ TagRuleInput.Condition = "and")
          => LET statics == SelectSeq(TagRuleInput.Patterns, IsStatic)
             IN  /\ Len(out.errors) <= Len(statics)
                 /\ \A e \in 1..Len(out.errors) :
                       \E i \in 1..Len(statics) : out.errors[e] = MsgTags(statics[i].Values)
                 /\ statics = <<>> => out.errors = <<>>
    /\ (/\ out.op = "checkRequirements"
        /\ ReqRuleInput.Condition = "and"
        /\ ~NameHasWelcome(file.name))
          => \A i \in 1..Len(ReqRuleInput.Patterns) :
                (~IsStatic(ReqRuleInput.Patterns[i]) /\ PatternFails(ReqRuleInput.Patterns[i]))
                   => FailureOf(ReqRuleInput.Patterns[i]) \in Range(out.errors)

C27_Witness ==
    /\ out.op = "checkTags"
    /\ TagRuleInput.Condition = "and"
    /\ Len(TagRuleInput.Patterns) = 1
    /\ TagRuleInput.Patterns[1].Type = "regex"
    /\ TagsInput = <<medium>>
    /\ out.errors = <<>>

(* C28: within one run every descriptor file has at most one LintResult in *)
(* the aggregated report, whatever the target directories or the changed   *)
(* directories are, one being an ancestor of another included.             *)
C28_EachDescriptorOnce ==
    \A i, j \in 1..Len(run.allResults) :
        run.allResults[i].File = run.allResults[j].File => i = j

(* C29: the aggregated report is deterministic: a second run with the same *)
(* arguments, the same changed files of the pull request and the same      *)
(* filesystem yields the same LintResults in the same order, in local mode *)
(* and with --comment-pr.                                                  *)
C29_ReportDeterministic ==
    (run.pc = "exit" /\ run.fatal = "" /\ run.previous.done)
        => run.allResults = run.previous.results

HoldsDescriptor(dir) == dir \in DescriptorDirs /\ disk.tree[dir] # "none"

(* The directories above a file, "." left out.                             *)
Ancestors(f) == {SubSeq(f, 1, k) : k \in 1..(Len(f) - 1)}

Nearest(f) ==
    LET holding == {d \in Ancestors(f) : HoldsDescriptor(d)}
    IN  IF holding = {} THEN {}
        ELSE {CHOOSE d \in holding : \A e \in holding : Len(e) <= Len(d)}

ExpectedChangedDirs ==
    UNION {IF f[Len(f)] = descriptorName(run.gen)
           THEN {SubSeq(f, 1, Len(f) - 1)}
           ELSE Nearest(f) : f \in Range(github.files)}

(* C30: in findChangedDirectories the search above a changed file ends,    *)
(* after one step per directory above the file at most: at the first       *)
(* directory that holds a descriptor, or at "." or "/".  The list that is  *)
(* returned holds no directory twice, and holds the                        *)
(* parent of every changed descriptor and, for any other changed file,     *)
(* only the nearest directory above it, other than "." and "/", that       *)
(* holds a descriptor.                                                     *)
C30_ChangedDirectories ==
    (/\ run.commentPR
     /\ \/ run.pc = "lint"
        \/ run.pc = "exit" /\ run.fatal \notin {"env", "list"})
          => /\ \A i \in 1..Len(github.files) :
                   searchUpSteps(FilepathDir(github.files[i])) <= Len(github.files[i]) - 1
             /\ \A i, j \in 1..Len(run.changedDirs) :
                   run.changedDirs[i] = run.changedDirs[j] => i = j
             /\ Range(run.changedDirs) = ExpectedChangedDirs

C30_Witness ==
    /\ run.commentPR
    /\ run.pc = "exit"
    /\ run.fatal = ""
    /\ github.files = <<Append(C1, "x.txt"), Append(C2, descriptorName(run.gen))>>
    /\ HoldsDescriptor(G)
    /\ HoldsDescriptor(C1)
    /\ ~HoldsDescriptor(C2)
    /\ Range(run.changedDirs) = {C1, C2}

=============================================================================
